---- MODULE Spec2Model ----
(***************************************************************************)
(* covid-vacc-poll: polling workers (service.rs), the Booked4us provider   *)
(* (service/booked4us.rs), the notification fan-out and the admin channel  *)
(* (notification.rs) and the shutdown sequence of main (main.rs).          *)
(***************************************************************************)
EXTENDS Integers, Sequences, FiniteSets, TLC

(* ------------------------------ bounds -------------------------------- *)
\* item ids a provider's backend can report
MaxId == 2
\* largest configured poll interval (ServiceSettings.sleep), in seconds
MaxSleep == 3
\* the admin queue (an unbounded mpsc channel) is explored up to this length
MaxQueue == 2
\* how often the process interrupt fires
MaxInterrupts == 1

(* --------------------------- configuration ---------------------------- *)
\* config.services: one worker per entry, in the order of the file
Workers == <<"w1", "w2">>
WorkerSet == {Workers[i] : i \in 1..Len(Workers)}
\* config.notifications: the registry's sink names
Sinks == {"A", "B", "C"}
Threads == WorkerSet \cup {"admin"}
\* the configurations explored: ServiceSettings.sleep per service, and
\* ServiceSettings.notifications per service with Config.admin_notifications
Subs(w1, w2, admin) == [t \in Threads |-> CASE t = "w1" -> w1 [] t = "w2" -> w2 [] OTHER -> admin]
Sleeps(w1, w2) == [w \in WorkerSet |-> IF w = "w1" THEN w1 ELSE w2]
Configs ==
  { [sleep |-> Sleeps(0, MaxSleep), notifications |-> Subs(<<>>, <<"A", "A">>, <<"A">>)],
    [sleep |-> Sleeps(MaxSleep, MaxSleep - 1),
     notifications |-> Subs(<<"A", "B", "C">>, <<>>, <<"C">>)] }
\* the items and names a backend reports when a provider is exercised alone,
\* and the single item the backends of the running services report
Names == {"a"}
Ids == 1..MaxId
SysIds == {1}

VARIABLES
  sleep,        \* [worker -> u32] ServiceSettings.sleep
  notifications,\* [thread -> its NotificatorSubCollection, a list of sink names]
  free_ids,     \* [worker -> set of ids] Booked4us.free_ids
  details,      \* [worker -> map id -> Detail] Booked4us.details
  poll_result,  \* [worker -> the Result poll_once returned last]
  observed,     \* [worker -> the poll behind poll_result: the provider's fields before
                \*  it and what the backend answered]
  pc,           \* [worker -> position of the worker thread]
  elapsed,      \* [worker -> _index of the 'sleep loop]
  kill_rx,      \* [worker -> number of signals queued on its kill channel]
  idx,          \* [thread -> position in the sink list of the fan-out in progress]
  urgent,       \* [thread -> TRUE when the fan-out in progress is send_urgent]
  call,         \* [thread -> the sink invocations of its last fan-out call, in order]
  call_result,  \* [thread -> outcome of that call]
  lock,         \* [sink -> the thread holding the sink's Mutex, or "free"]
  sending,      \* [thread -> TRUE while it executes a sink's send_normal / send_urgent]
  poisoned,     \* [sink -> TRUE once a thread panicked while holding the sink's Mutex]
  msg_rx,       \* the admin queue
  admin_kill_rx,\* number of signals queued on the admin kill channel
  admin_pc,     \* position of the AdminChannel thread
  forwarded,    \* the "App" messages the AdminChannel handed to its subscription so far
  main_pc,      \* position of main
  services,     \* ServiceCollection.services while join_all pops it
  raised,       \* interrupts raised so far
  killer_pc,    \* position of the ctrlc handler thread in kill_all
  kills_sent,   \* [worker -> number of kill signals sent to it so far]
  panicked      \* threads that ended in a panic

provider_vars == <<free_ids, details, poll_result, observed>>
worker_vars == <<pc, elapsed, kill_rx>>
fanout_vars == <<idx, urgent, call, call_result, lock, sending, poisoned>>
admin_vars == <<msg_rx, admin_kill_rx, admin_pc, forwarded>>
main_vars == <<main_pc, services>>
killer_vars == <<raised, killer_pc, kills_sent>>
config_vars == <<sleep, notifications>>
vars == <<config_vars, provider_vars, worker_vars, fanout_vars, admin_vars, main_vars,
          killer_vars, panicked>>

(* ------------------------- Booked4us provider ------------------------- *)
Detail(i, n) == [id |-> i, name |-> n]
NoDetails == [i \in {} |-> Detail(0, "a")]

\* every HashMap<u32, Detail> over the ids I: get_overview inserts each
\* detail under its own id
DetailMaps(I, N) == UNION {[S -> N] : S \in SUBSET I}
AsDetails(m) == [i \in DOMAIN m |-> Detail(i, m[i])]

\* what the backend answers to one poll: the overview request fails or
\* yields details, and each FirstFreeSlot probe answers free, not free or fails
ProbeAnswers == {"free", "none", "err"}
NoAnswer == [ok |-> FALSE, overview |-> NoDetails, probe |-> [i \in {} |-> "none"]]
Observations(I, N) ==
  {NoAnswer}
  \cup UNION {{[ok |-> TRUE, overview |-> AsDetails(m), probe |-> p] :
                 p \in [DOMAIN m -> ProbeAnswers]} : m \in DetailMaps(I, N)}
NoObservation == [before_free |-> {}, before_details |-> NoDetails, answer |-> NoAnswer]

\* a HashMap is visited one key at a time, each key once; ascending ids is
\* the order used here
RECURSIVE IterOrder(_)
IterOrder(S) ==
  IF S = {} THEN <<>>
  ELSE LET m == CHOOSE x \in S : \A y \in S : x <= y
       IN <<m>> \o IterOrder(S \ {m})

get_overview(obs) == [ok |-> obs.ok, details |-> obs.overview]

has_free_slots(obs, id) == [ok |-> obs.probe[id] # "err", has_free |-> obs.probe[id] = "free"]

extract_free_slots(obs, dets) ==
  IF \E id \in DOMAIN dets : ~has_free_slots(obs, id).ok
  THEN [ok |-> FALSE, free_slots |-> NoDetails]
  ELSE [ok |-> TRUE,
        free_slots |-> [id \in {i \in DOMAIN dets : has_free_slots(obs, i).has_free} |-> dets[id]]]

map_to_set(slots) == DOMAIN slots

map_to_vec(slots) == [k \in 1..Cardinality(DOMAIN slots) |-> slots[IterOrder(DOMAIN slots)[k]]]

extract_added_slots_all_free(self_free_ids, free_slots) == map_to_vec(free_slots)

extract_added_slots(self_free_ids, free_slots) ==
  LET keep == {id \in DOMAIN free_slots : id \notin self_free_ids}
  IN [k \in 1..Cardinality(keep) |-> free_slots[IterOrder(keep)[k]]]

extract_removed_slots_all_stored(self_free_ids, self_details, free_set) ==
  LET keep == {id \in DOMAIN self_details : id \in self_free_ids}
  IN [k \in 1..Cardinality(keep) |-> self_details[IterOrder(keep)[k]]]

extract_removed_slots(self_free_ids, self_details, free_set) ==
  LET diff == self_free_ids \ free_set
      keep == {id \in DOMAIN self_details : id \in diff}
  IN [k \in 1..Cardinality(keep) |-> self_details[IterOrder(keep)[k]]]

has_changed_one_sided(self_free_ids, free_set) == (free_set \ self_free_ids) # {}

has_changed(self_free_ids, free_set) ==
  ((self_free_ids \ free_set) \cup (free_set \ self_free_ids)) # {}

vec_to_markdown(slots) == [k \in 1..Len(slots) |-> <<slots[k].name, slots[k].id>>]

NoText == [added |-> <<>>, all |-> <<>>, removed |-> <<>>]
PollErr == [status |-> "Err", kind |-> "-", text |-> NoText]
PollPending == [status |-> "Pending", kind |-> "-", text |-> NoText]

classify_inverted(added) == IF added = <<>> THEN "Urgent" ELSE "Normal"

classify(added) == IF added = <<>> THEN "Normal" ELSE "Urgent"

async_poll_keeps_details(self_free_ids, self_details, obs) ==
  LET ov == get_overview(obs)
      fs == extract_free_slots(obs, ov.details)
      free_set == map_to_set(fs.free_slots)
      added == extract_added_slots(self_free_ids, fs.free_slots)
      removed == extract_removed_slots(self_free_ids, self_details, free_set)
  IN IF ~ov.ok \/ ~fs.ok
     THEN [result |-> PollErr, free_ids |-> self_free_ids, details |-> self_details]
     ELSE IF has_changed(self_free_ids, free_set)
     THEN [result |-> [status |-> "Ok", kind |-> classify(added),
                       text |-> [added |-> vec_to_markdown(added),
                                 all |-> vec_to_markdown(map_to_vec(fs.free_slots)),
                                 removed |-> vec_to_markdown(removed)]],
           free_ids |-> free_set, details |-> self_details]
     ELSE [result |-> [status |-> "Ok", kind |-> "None", text |-> NoText],
           free_ids |-> self_free_ids, details |-> self_details]

async_poll_stores_overview(self_free_ids, self_details, obs) ==
  LET ov == get_overview(obs)
      fs == extract_free_slots(obs, ov.details)
      free_set == map_to_set(fs.free_slots)
      added == extract_added_slots(self_free_ids, fs.free_slots)
      removed == extract_removed_slots(self_free_ids, self_details, free_set)
  IN IF ~ov.ok
     THEN [result |-> PollErr, free_ids |-> self_free_ids, details |-> self_details]
     ELSE IF ~fs.ok
     THEN [result |-> PollErr, free_ids |-> self_free_ids, details |-> ov.details]
     ELSE IF has_changed(self_free_ids, free_set)
     THEN [result |-> [status |-> "Ok", kind |-> classify(added),
                       text |-> [added |-> vec_to_markdown(added),
                                 all |-> vec_to_markdown(map_to_vec(fs.free_slots)),
                                 removed |-> vec_to_markdown(removed)]],
           free_ids |-> free_set, details |-> ov.details]
     ELSE [result |-> [status |-> "Ok", kind |-> "None", text |-> NoText],
           free_ids |-> self_free_ids, details |-> self_details]

async_poll_keeps_free_ids(self_free_ids, self_details, obs) ==
  LET ov == get_overview(obs)
      fs == extract_free_slots(obs, ov.details)
      free_set == map_to_set(fs.free_slots)
      added == extract_added_slots(self_free_ids, fs.free_slots)
      removed == extract_removed_slots(self_free_ids, self_details, free_set)
  IN IF ~ov.ok \/ ~fs.ok
     THEN [result |-> PollErr, free_ids |-> self_free_ids, details |-> self_details]
     ELSE IF has_changed(self_free_ids, free_set)
     THEN [result |-> [status |-> "Ok", kind |-> classify(added),
                       text |-> [added |-> vec_to_markdown(added),
                                 all |-> vec_to_markdown(map_to_vec(fs.free_slots)),
                                 removed |-> vec_to_markdown(removed)]],
           free_ids |-> self_free_ids, details |-> ov.details]
     ELSE [result |-> [status |-> "Ok", kind |-> "None", text |-> NoText],
           free_ids |-> self_free_ids, details |-> self_details]

\* async_poll on a provider holding (self_free_ids, self_details): the
\* Result it returns and the fields it leaves behind
async_poll(self_free_ids, self_details, obs) ==
  LET ov == get_overview(obs)
      fs == extract_free_slots(obs, ov.details)
      free_set == map_to_set(fs.free_slots)
      added == extract_added_slots(self_free_ids, fs.free_slots)
      removed == extract_removed_slots(self_free_ids, self_details, free_set)
  IN IF ~ov.ok \/ ~fs.ok
     THEN [result |-> PollErr, free_ids |-> self_free_ids, details |-> self_details]
     ELSE IF has_changed(self_free_ids, free_set)
     THEN [result |-> [status |-> "Ok", kind |-> classify(added),
                       text |-> [added |-> vec_to_markdown(added),
                                 all |-> vec_to_markdown(map_to_vec(fs.free_slots)),
                                 removed |-> vec_to_markdown(removed)]],
           free_ids |-> free_set, details |-> ov.details]
     ELSE [result |-> [status |-> "Ok", kind |-> "None", text |-> NoText],
           free_ids |-> self_free_ids, details |-> self_details]

\* the free-id set a poll observed (defined for polls that succeeded)
FreeSetOf(obs) == {i \in DOMAIN obs.overview : obs.probe[i] = "free"}
Succeeds(obs) == obs.ok /\ \A i \in DOMAIN obs.overview : obs.probe[i] # "err"

\* poll_once of worker w's provider against the backend answer obs
poll_once(w, obs) ==
  LET r == async_poll(free_ids[w], details[w], obs)
  IN /\ free_ids' = [free_ids EXCEPT ![w] = r.free_ids]
     /\ details' = [details EXCEPT ![w] = r.details]
     /\ poll_result' = [poll_result EXCEPT ![w] = r.result]
     /\ observed' = [observed EXCEPT ![w] = [before_free |-> free_ids[w],
                                             before_details |-> details[w],
                                             answer |-> obs]]

(* ------------------------------- Init --------------------------------- *)
Msg(title, message) == <<title, message>>
Started == Msg("App", "COVID Vaccination Poll App Started")
Terminated == Msg("App", "COVID Vaccination Poll App Terminated")
ErrorMsg(w) == Msg(w, "error")

Init ==
  /\ \E cfg \in Configs : sleep = cfg.sleep /\ notifications = cfg.notifications
  /\ free_ids = [w \in WorkerSet |-> {}]
  /\ details = [w \in WorkerSet |-> NoDetails]
  /\ poll_result = [w \in WorkerSet |-> PollPending]
  /\ observed = [w \in WorkerSet |-> NoObservation]
  /\ pc = [w \in WorkerSet |-> "Polling"]
  /\ elapsed = [w \in WorkerSet |-> 0]
  /\ kill_rx = [w \in WorkerSet |-> 0]
  /\ idx = [t \in Threads |-> 0]
  /\ urgent = [t \in Threads |-> FALSE]
  /\ call = [t \in Threads |-> <<>>]
  /\ call_result = [t \in Threads |-> "-"]
  /\ lock = [s \in Sinks |-> "free"]
  /\ sending = [t \in Threads |-> FALSE]
  /\ poisoned = [s \in Sinks |-> FALSE]
  /\ msg_rx = <<>>
  /\ admin_kill_rx = 0
  /\ admin_pc = "Sleeping"
  /\ forwarded = {}
  /\ main_pc = "SendStarted"
  /\ services = Workers
  /\ raised = 0
  /\ killer_pc = 0
  /\ kills_sent = [w \in WorkerSet |-> 0]
  /\ panicked = {}

\* the process lives until main returns or panics
ProcessAlive == main_pc \notin {"Done", "Panicked"}
\* the admin queue's Receiver lives as long as the AdminChannel thread
MsgRxAlive == admin_pc # "Terminated"
\* a worker's kill Receiver lives as long as the worker thread
Ended(w) == pc[w] \in {"Terminated", "Panicked"}

(* --------------------------- notification.rs -------------------------- *)
fanout_begin_normal(t, is_urgent) ==
  /\ urgent' = [urgent EXCEPT ![t] = FALSE]
  /\ call' = [call EXCEPT ![t] = <<>>]
  /\ idx' = [idx EXCEPT ![t] = IF notifications[t] = <<>> THEN 0 ELSE 1]
  /\ call_result' = [call_result EXCEPT ![t] = IF notifications[t] = <<>> THEN "Ok" ELSE "Running"]

\* NotificatorSubCollection::send_normal / send_urgent, entered by thread t:
\* the call returns Ok at once for an empty list, else the loop starts
fanout_begin(t, is_urgent) ==
  /\ urgent' = [urgent EXCEPT ![t] = is_urgent]
  /\ call' = [call EXCEPT ![t] = <<>>]
  /\ idx' = [idx EXCEPT ![t] = IF notifications[t] = <<>> THEN 0 ELSE 1]
  /\ call_result' = [call_result EXCEPT ![t] = IF notifications[t] = <<>> THEN "Ok" ELSE "Running"]

\* the record of a returned call is dropped by the caller's next step
fanout_forget(t) ==
  /\ call' = [call EXCEPT ![t] = <<>>]
  /\ call_result' = [call_result EXCEPT ![t] = "-"]
  /\ urgent' = [urgent EXCEPT ![t] = FALSE]
  /\ UNCHANGED <<idx, lock, sending, poisoned>>

CurrentSink(t) == notifications[t][idx[t]]
InFanout(t) == call_result[t] = "Running"
Holding(t) == InFanout(t) /\ lock[CurrentSink(t)] = t

lock_sink_no_wait(t) ==
  /\ InFanout(t)
  /\ ~Holding(t)
  /\ lock' = [lock EXCEPT ![CurrentSink(t)] = t]
  /\ sending' = [sending EXCEPT ![t] = TRUE]

\* notif.lock(): blocks until the sink's Mutex is free; it returns Ok(guard)
\* when the Mutex is not poisoned, and with the guard the thread enters the
\* sink's send
lock_sink(t) ==
  /\ InFanout(t)
  /\ ~Holding(t)
  /\ lock[CurrentSink(t)] = "free"
  /\ ~poisoned[CurrentSink(t)]
  /\ lock' = [lock EXCEPT ![CurrentSink(t)] = t]
  /\ sending' = [sending EXCEPT ![t] = TRUE]

\* after a sink's send returned ok: the position of the loop, 0 when it is over
next_idx_continue(t, ok) == IF idx[t] < Len(notifications[t]) THEN idx[t] + 1 ELSE 0

next_idx(t, ok) == IF ok /\ idx[t] < Len(notifications[t]) THEN idx[t] + 1 ELSE 0

sink_send_keeps_guard(t, ok) ==
  /\ Holding(t)
  /\ sending[t]
  /\ sending' = [sending EXCEPT ![t] = FALSE]
  /\ call' = [call EXCEPT ![t] = Append(@, [sink |-> CurrentSink(t), pos |-> idx[t],
                                              ok |-> ok, urgent |-> urgent[t]])]
  /\ idx' = [idx EXCEPT ![t] = next_idx(t, ok)]
  /\ call_result' = [call_result EXCEPT ![t] =
                       IF next_idx(t, ok) # 0 THEN "Running" ELSE IF ok THEN "Ok" ELSE "Err"]
  /\ lock' = IF next_idx(t, ok) # 0 THEN lock ELSE [lock EXCEPT ![CurrentSink(t)] = "free"]
  /\ UNCHANGED <<urgent, poisoned>>

\* the sink's send_normal / send_urgent returns ok or an error; the guard is
\* dropped at the end of the statement, `?` returns the error
sink_send(t, ok) ==
  /\ Holding(t)
  /\ sending[t]
  /\ lock' = [lock EXCEPT ![CurrentSink(t)] = "free"]
  /\ sending' = [sending EXCEPT ![t] = FALSE]
  /\ UNCHANGED poisoned
  /\ call' = [call EXCEPT ![t] = Append(@, [sink |-> CurrentSink(t), pos |-> idx[t],
                                              ok |-> ok, urgent |-> urgent[t]])]
  /\ idx' = [idx EXCEPT ![t] = next_idx(t, ok)]
  /\ call_result' = [call_result EXCEPT ![t] =
                       IF next_idx(t, ok) # 0 THEN "Running" ELSE IF ok THEN "Ok" ELSE "Err"]
  /\ UNCHANGED urgent

\* AdminNotificationsSender::send
admin_notif_send(m) == msg_rx' = Append(msg_rx, m)

(* ----------------------------- service.rs ----------------------------- *)
\* the Result of poll_once is consumed by the match; the record of it is
\* dropped by the worker's first step in the 'sleep loop
poll_forget(w) ==
  /\ poll_result' = [poll_result EXCEPT ![w] = PollPending]
  /\ observed' = [observed EXCEPT ![w] = NoObservation]

\* the thread's closure returns: the provider it owned is dropped
provider_drop(w) ==
  /\ free_ids' = [free_ids EXCEPT ![w] = {}]
  /\ details' = [details EXCEPT ![w] = NoDetails]

\* messages main has still to put on the admin queue
MainPending ==
  CASE main_pc \in {"NewAdmin", "NewServices", "SendStarted"} -> 2
    [] main_pc \in {"SetHandler", "JoinAll", "SendTerminated"} -> 1
    [] OTHER -> 0
\* the admin queue is explored up to MaxQueue messages, those of main included
QueueRoom == Len(msg_rx) + MainPending < MaxQueue

enter_sleep_or_exit(w) ==
  /\ pc' = [pc EXCEPT ![w] = IF kill_rx[w] > 0 THEN "Terminated" ELSE "Sleeping"]
  /\ elapsed' = [elapsed EXCEPT ![w] = 0]

\* the worker leaves the match on poll_once and enters the 'sleep loop
enter_sleep(w) ==
  /\ pc' = [pc EXCEPT ![w] = "Sleeping"]
  /\ elapsed' = [elapsed EXCEPT ![w] = 0]

\* admin_notif.send(title, error) by worker w; the unwrap panics the
\* thread when the admin queue's Receiver is gone
worker_report(w) ==
  IF MsgRxAlive
  THEN admin_notif_send(ErrorMsg(w)) /\ enter_sleep(w) /\ UNCHANGED panicked
  ELSE /\ pc' = [pc EXCEPT ![w] = "Panicked"]
       /\ panicked' = panicked \cup {w}
       /\ UNCHANGED <<msg_rx, elapsed>>

\* poll_once returns and the worker matches on the Result: an Err is
\* reported to the admin queue, Urgent and Normal enter the fan-out
WorkerPoll(w) ==
  /\ ProcessAlive
  /\ pc[w] = "Polling"
  /\ \E obs \in Observations(SysIds, Names) :
       LET r == async_poll(free_ids[w], details[w], obs).result
       IN /\ poll_once(w, obs)
          /\ CASE r.status = "Err" ->
                    /\ QueueRoom
                    /\ worker_report(w)
                    /\ UNCHANGED fanout_vars
               [] r.kind = "None" ->
                    /\ enter_sleep(w)
                    /\ UNCHANGED <<fanout_vars, msg_rx, panicked>>
               [] OTHER ->
                    /\ fanout_begin(w, r.kind = "Urgent")
                    /\ IF notifications[w] = <<>>
                       THEN enter_sleep(w)
                       ELSE pc' = [pc EXCEPT ![w] = "Notifying"] /\ UNCHANGED elapsed
                    /\ UNCHANGED <<lock, sending, poisoned, msg_rx, panicked>>
  /\ UNCHANGED <<config_vars, kill_rx, admin_kill_rx, admin_pc, forwarded, main_vars, killer_vars>>

WorkerLock(w) ==
  /\ ProcessAlive
  /\ pc[w] = "Notifying"
  /\ lock_sink(w)
  /\ UNCHANGED <<config_vars, provider_vars, worker_vars, idx, urgent, call, call_result, poisoned,
                 admin_vars, main_vars, killer_vars, panicked>>

\* one sink's send returns inside the worker's fan-out; when the call
\* returns the worker matches on it: Ok => (), Err => report to the admin queue
WorkerSend(w) ==
  /\ ProcessAlive
  /\ pc[w] = "Notifying"
  /\ \E ok \in BOOLEAN :
       /\ sink_send(w, ok)
       /\ IF next_idx(w, ok) # 0
          THEN UNCHANGED <<pc, elapsed, msg_rx, panicked>>
          ELSE IF ok
          THEN enter_sleep(w) /\ UNCHANGED <<msg_rx, panicked>>
          ELSE QueueRoom /\ worker_report(w)
  /\ UNCHANGED <<config_vars, provider_vars, kill_rx, admin_kill_rx, admin_pc, forwarded,
                 main_vars, killer_vars>>

\* kill_rx.try_recv() returns Ok
kill_observed_at_end(w) == kill_rx[w] > 0 /\ elapsed[w] + 1 = sleep[w]

kill_observed(w) == kill_rx[w] > 0

\* one pass of the 'sleep loop: thread::sleep(1 s), then kill_rx.try_recv()
WorkerTick(w) ==
  /\ ProcessAlive
  /\ pc[w] = "Sleeping"
  /\ elapsed[w] < sleep[w]
  /\ IF kill_observed(w)
     THEN /\ kill_rx' = [kill_rx EXCEPT ![w] = 0]
          /\ pc' = [pc EXCEPT ![w] = "Terminated"]
          /\ provider_drop(w)
          /\ UNCHANGED elapsed
     ELSE /\ elapsed' = [elapsed EXCEPT ![w] = @ + 1]
          /\ UNCHANGED <<pc, kill_rx, free_ids, details>>
  /\ fanout_forget(w)
  /\ poll_forget(w)
  /\ UNCHANGED <<config_vars, admin_vars, main_vars, killer_vars, panicked>>

WorkerSleepDone_early(w) ==
  /\ ProcessAlive
  /\ pc[w] = "Sleeping"
  /\ elapsed[w] + 1 >= sleep[w]
  /\ pc' = [pc EXCEPT ![w] = "Polling"]
  /\ fanout_forget(w)
  /\ poll_forget(w)
  /\ UNCHANGED <<config_vars, free_ids, details, elapsed, kill_rx, admin_vars, main_vars,
                 killer_vars, panicked>>

\* the range 0..sleep is exhausted and `while running` starts the next poll
WorkerSleepDone(w) ==
  /\ ProcessAlive
  /\ pc[w] = "Sleeping"
  /\ elapsed[w] >= sleep[w]
  /\ pc' = [pc EXCEPT ![w] = "Polling"]
  /\ fanout_forget(w)
  /\ poll_forget(w)
  /\ UNCHANGED <<config_vars, free_ids, details, elapsed, kill_rx, admin_vars, main_vars,
                 killer_vars, panicked>>

(* -------------------- notification.rs: AdminChannel ------------------- *)
AdminRecv_newest_first ==
  /\ ProcessAlive
  /\ admin_pc = "Sleeping"
  /\ IF msg_rx # <<>>
     THEN /\ msg_rx' = SubSeq(msg_rx, 1, Len(msg_rx) - 1)
          /\ forwarded' = IF msg_rx[Len(msg_rx)][1] = "App" THEN forwarded \cup {msg_rx[Len(msg_rx)]}
                          ELSE forwarded
          /\ fanout_begin("admin", FALSE)
          /\ admin_pc' = IF notifications["admin"] = <<>> THEN "CheckKill" ELSE "Notifying"
          /\ UNCHANGED <<lock, sending, poisoned>>
     ELSE /\ admin_pc' = "CheckKill"
          /\ UNCHANGED <<msg_rx, forwarded, fanout_vars>>
  /\ UNCHANGED <<config_vars, provider_vars, worker_vars, admin_kill_rx, main_vars, killer_vars,
                 panicked>>

\* thread::sleep(1 s), then msg_rx.try_recv(): a message enters send_normal
AdminRecv ==
  /\ ProcessAlive
  /\ admin_pc = "Sleeping"
  /\ IF msg_rx # <<>>
     THEN /\ msg_rx' = Tail(msg_rx)
          /\ forwarded' = IF Head(msg_rx)[1] = "App" THEN forwarded \cup {Head(msg_rx)}
                          ELSE forwarded
          /\ fanout_begin("admin", FALSE)
          /\ admin_pc' = IF notifications["admin"] = <<>> THEN "CheckKill" ELSE "Notifying"
          /\ UNCHANGED <<lock, sending, poisoned>>
     ELSE /\ admin_pc' = "CheckKill"
          /\ UNCHANGED <<msg_rx, forwarded, fanout_vars>>
  /\ UNCHANGED <<config_vars, provider_vars, worker_vars, admin_kill_rx, main_vars, killer_vars,
                 panicked>>

AdminLock ==
  /\ ProcessAlive
  /\ admin_pc = "Notifying"
  /\ lock_sink("admin")
  /\ UNCHANGED <<config_vars, provider_vars, worker_vars, idx, urgent, call, call_result, poisoned,
                 admin_vars, main_vars, killer_vars, panicked>>

AdminSend_reports ==
  /\ ProcessAlive
  /\ admin_pc = "Notifying"
  /\ \E ok \in BOOLEAN :
       /\ sink_send("admin", ok)
       /\ admin_pc' = IF next_idx("admin", ok) # 0 THEN "Notifying" ELSE "CheckKill"
       /\ msg_rx' = IF next_idx("admin", ok) = 0 /\ ~ok
                    THEN Append(msg_rx, Msg("admin", "error")) ELSE msg_rx
  /\ UNCHANGED <<config_vars, provider_vars, worker_vars, admin_kill_rx, forwarded,
                 main_vars, killer_vars, panicked>>

\* one sink's send returns inside the admin fan-out; an Err is only logged
AdminSend ==
  /\ ProcessAlive
  /\ admin_pc = "Notifying"
  /\ \E ok \in BOOLEAN :
       /\ sink_send("admin", ok)
       /\ admin_pc' = IF next_idx("admin", ok) # 0 THEN "Notifying" ELSE "CheckKill"
  /\ UNCHANGED <<config_vars, provider_vars, worker_vars, msg_rx, admin_kill_rx, forwarded,
                 main_vars, killer_vars, panicked>>

\* kill_rx.try_recv() at the end of the pass
AdminCheckKill ==
  /\ ProcessAlive
  /\ admin_pc = "CheckKill"
  /\ IF admin_kill_rx > 0
     THEN admin_kill_rx' = 0 /\ admin_pc' = "Terminated"
     ELSE admin_pc' = "Sleeping" /\ UNCHANGED admin_kill_rx
  /\ fanout_forget("admin")
  /\ UNCHANGED <<config_vars, provider_vars, worker_vars, msg_rx, forwarded, main_vars,
                 killer_vars, panicked>>

(* ------------------------------ main.rs ------------------------------- *)
\* admin_notifs.get_tx().send(..) by main; the unwrap panics main when
\* the admin queue's Receiver is gone
main_send(m, then) ==
  IF MsgRxAlive
  THEN admin_notif_send(m) /\ main_pc' = then /\ UNCHANGED panicked
  ELSE main_pc' = "Panicked" /\ panicked' = panicked \cup {"main"} /\ UNCHANGED msg_rx

MainSendStarted ==
  /\ main_pc = "SendStarted"
  /\ main_send(Started, "SetHandler")
  /\ UNCHANGED <<config_vars, provider_vars, worker_vars, fanout_vars, admin_kill_rx, admin_pc,
                 forwarded, services, killer_vars>>

\* services.get_killers() and ctrlc::set_handler
MainSetHandler ==
  /\ main_pc = "SetHandler"
  /\ main_pc' = "JoinAll"
  /\ UNCHANGED <<config_vars, provider_vars, worker_vars, fanout_vars, admin_vars, services,
                 killer_vars, panicked>>

MainJoin_once ==
  /\ main_pc = "JoinAll"
  /\ services # <<>>
  /\ LET srv == services[Len(services)]
     IN /\ Ended(srv)
        /\ services' = SubSeq(services, 1, Len(services) - 1)
        /\ main_pc' = "SendTerminated"
        /\ UNCHANGED panicked
  /\ UNCHANGED <<config_vars, provider_vars, worker_vars, fanout_vars, admin_vars, killer_vars>>

\* ServiceCollection::join_all: pop the last service and join its thread;
\* the unwrap panics main when that thread panicked
MainJoin ==
  /\ main_pc = "JoinAll"
  /\ services # <<>>
  /\ LET srv == services[Len(services)]
     IN /\ Ended(srv)
        /\ services' = SubSeq(services, 1, Len(services) - 1)
        /\ IF pc[srv] = "Panicked"
           THEN main_pc' = "Panicked" /\ panicked' = panicked \cup {"main"}
           ELSE /\ main_pc' = IF Len(services) = 1 THEN "SendTerminated" ELSE "JoinAll"
                /\ UNCHANGED panicked
  /\ UNCHANGED <<config_vars, provider_vars, worker_vars, fanout_vars, admin_vars, killer_vars>>

MainSendTerminated ==
  /\ main_pc = "SendTerminated"
  /\ main_send(Terminated, "KillAdmin")
  /\ UNCHANGED <<config_vars, provider_vars, worker_vars, fanout_vars, admin_kill_rx, admin_pc,
                 forwarded, services, killer_vars>>

\* AdminNotificationsKiller::kill
MainKillAdmin ==
  /\ main_pc = "KillAdmin"
  /\ IF MsgRxAlive
     THEN admin_kill_rx' = admin_kill_rx + 1 /\ main_pc' = "JoinAdmin" /\ UNCHANGED panicked
     ELSE main_pc' = "Panicked" /\ panicked' = panicked \cup {"main"}
          /\ UNCHANGED admin_kill_rx
  /\ UNCHANGED <<config_vars, provider_vars, worker_vars, fanout_vars, msg_rx, admin_pc, forwarded,
                 services, killer_vars>>

\* admin_notifs.join().unwrap(): the unwrap panics main when the
\* AdminChannel thread panicked
MainJoinAdmin ==
  /\ main_pc = "JoinAdmin"
  /\ admin_pc = "Terminated"
  /\ IF "admin" \in panicked
     THEN main_pc' = "Panicked" /\ panicked' = panicked \cup {"main"}
     ELSE main_pc' = "Done" /\ UNCHANGED panicked
  /\ UNCHANGED <<config_vars, provider_vars, worker_vars, fanout_vars, admin_vars, services,
                 killer_vars>>

(* ------------------- the interrupt and its handler -------------------- *)
HandlerSet == main_pc \notin {"NewAdmin", "NewServices", "SendStarted", "SetHandler"}

\* one tx.send(true).unwrap() of ServiceKillers::kill_all, to Workers[i]:
\* send fails once the worker's Receiver is gone and the unwrap panics
\* the handler thread
kill_send(i) ==
  LET w == Workers[i]
  IN IF Ended(w)
     THEN /\ panicked' = panicked \cup {"ctrlc"}
          /\ killer_pc' = 0
          /\ UNCHANGED <<kill_rx, kills_sent>>
     ELSE /\ kill_rx' = [kill_rx EXCEPT ![w] = @ + 1]
          /\ kills_sent' = [kills_sent EXCEPT ![w] = @ + 1]
          /\ killer_pc' = IF i < Len(Workers) THEN i + 1 ELSE 0
          /\ UNCHANGED panicked

\* the process interrupt fires and the handler thread enters kill_all (an
\* interrupt raised while kill_all runs is handled when it has returned)
Interrupt ==
  /\ ProcessAlive
  /\ HandlerSet
  /\ "ctrlc" \notin panicked
  /\ raised < MaxInterrupts
  /\ killer_pc = 0
  /\ raised' = raised + 1
  /\ kill_send(1)
  /\ UNCHANGED <<config_vars, provider_vars, pc, elapsed, fanout_vars, admin_vars, main_vars>>

\* kill_all goes on with the next worker
KillAll ==
  /\ ProcessAlive
  /\ killer_pc > 0
  /\ kill_send(killer_pc)
  /\ UNCHANGED <<config_vars, provider_vars, pc, elapsed, fanout_vars, admin_vars, main_vars,
                 raised>>

(* --------------------------- specifications --------------------------- *)
Next ==
  \/ \E w \in WorkerSet : WorkerPoll(w)
  \/ \E w \in WorkerSet : WorkerLock(w)
  \/ \E w \in WorkerSet : WorkerSend(w)
  \/ \E w \in WorkerSet : WorkerTick(w)
  \/ \E w \in WorkerSet : WorkerSleepDone(w)
  \/ AdminRecv
  \/ AdminLock
  \/ AdminSend
  \/ AdminCheckKill
  \/ MainSendStarted
  \/ MainSetHandler
  \/ MainJoin
  \/ MainSendTerminated
  \/ MainKillAdmin
  \/ MainJoinAdmin
  \/ Interrupt
  \/ KillAll

Spec == Init /\ [][Next]_vars

\* every thread of the process keeps being scheduled, every poll and every
\* sink send returns, and a thread waiting for a sink's Mutex gets it
Fairness ==
  /\ \A w \in WorkerSet :
       /\ WF_vars(WorkerPoll(w))
       /\ SF_vars(WorkerLock(w))
       /\ WF_vars(WorkerSend(w))
       /\ WF_vars(WorkerTick(w))
       /\ WF_vars(WorkerSleepDone(w))
  /\ WF_vars(AdminRecv)
  /\ SF_vars(AdminLock)
  /\ WF_vars(AdminSend)
  /\ WF_vars(AdminCheckKill)
  /\ WF_vars(MainSendStarted)
  /\ WF_vars(MainSetHandler)
  /\ WF_vars(MainJoin)
  /\ WF_vars(MainSendTerminated)
  /\ WF_vars(MainKillAdmin)
  /\ WF_vars(MainJoinAdmin)
  /\ WF_vars(KillAll)

FairSpec == Init /\ [][Next]_vars /\ Fairness

\* a provider exercised alone: poll after poll against every backend answer
ProviderInit == Init /\ sleep[Workers[1]] = 0

ProviderPoll ==
  /\ \E obs \in Observations(Ids, Names) : poll_once(Workers[1], obs)
  /\ UNCHANGED <<config_vars, worker_vars, fanout_vars, admin_vars, main_vars, killer_vars, panicked>>

ProviderSpec == ProviderInit /\ [][ProviderPoll]_vars

\* the interrupt fires once more than Spec explores: the handler thread
\* enters kill_all again
InterruptAgain ==
  /\ ProcessAlive
  /\ HandlerSet
  /\ "ctrlc" \notin panicked
  /\ raised = MaxInterrupts
  /\ killer_pc = 0
  /\ raised' = raised + 1
  /\ kill_send(1)
  /\ UNCHANGED <<config_vars, provider_vars, pc, elapsed, fanout_vars, admin_vars, main_vars>>

RepeatNext == Next \/ InterruptAgain

RepeatSpec == Init /\ [][RepeatNext]_vars

(* ---------- sinks whose send panics: the poisoned sink Mutex ----------- *)
\* a sink's send panics inside thread t: the guard is dropped while the
\* thread unwinds, which poisons the Mutex, and the thread ends
sink_panic(t) ==
  /\ Holding(t)
  /\ sending[t]
  /\ lock' = [lock EXCEPT ![CurrentSink(t)] = "free"]
  /\ poisoned' = [poisoned EXCEPT ![CurrentSink(t)] = TRUE]
  /\ sending' = [sending EXCEPT ![t] = FALSE]
  /\ panicked' = panicked \cup {t}
  /\ UNCHANGED <<idx, urgent, call, call_result>>

WorkerSinkPanic(w) ==
  /\ ProcessAlive
  /\ pc[w] = "Notifying"
  /\ sink_panic(w)
  /\ pc' = [pc EXCEPT ![w] = "Panicked"]
  /\ UNCHANGED <<config_vars, provider_vars, elapsed, kill_rx, admin_vars, main_vars, killer_vars>>

\* the AdminChannel thread ends by the panic: msg_rx and kill_rx are dropped
AdminSinkPanic ==
  /\ ProcessAlive
  /\ admin_pc = "Notifying"
  /\ sink_panic("admin")
  /\ admin_pc' = "Terminated"
  /\ UNCHANGED <<config_vars, provider_vars, worker_vars, msg_rx, admin_kill_rx, forwarded,
                 main_vars, killer_vars>>

\* notif.lock() returns Err on a poisoned Mutex and the fan-out returns
\* Err(GenericError) at once
lock_poisoned(t) ==
  /\ InFanout(t)
  /\ ~Holding(t)
  /\ lock[CurrentSink(t)] = "free"
  /\ poisoned[CurrentSink(t)]
  /\ idx' = [idx EXCEPT ![t] = 0]
  /\ call_result' = [call_result EXCEPT ![t] = "Err"]
  /\ UNCHANGED <<urgent, call, lock, sending, poisoned>>

\* the worker matches on the Err: report to the admin queue
WorkerLockPoisoned(w) ==
  /\ ProcessAlive
  /\ pc[w] = "Notifying"
  /\ lock_poisoned(w)
  /\ QueueRoom
  /\ worker_report(w)
  /\ UNCHANGED <<config_vars, provider_vars, kill_rx, admin_kill_rx, admin_pc, forwarded,
                 main_vars, killer_vars>>

\* the AdminChannel matches on the Err: logged
AdminLockPoisoned ==
  /\ ProcessAlive
  /\ admin_pc = "Notifying"
  /\ lock_poisoned("admin")
  /\ admin_pc' = "CheckKill"
  /\ UNCHANGED <<config_vars, provider_vars, worker_vars, msg_rx, admin_kill_rx, forwarded,
                 main_vars, killer_vars, panicked>>

PoisonNext ==
  \/ Next
  \/ \E w \in WorkerSet : WorkerSinkPanic(w)
  \/ AdminSinkPanic
  \/ \E w \in WorkerSet : WorkerLockPoisoned(w)
  \/ AdminLockPoisoned

PoisonSpec == Init /\ [][PoisonNext]_vars

(* ------------------- main.rs: construction of the threads -------------- *)
\* configurations whose subscriptions may name a sink the registry lacks
StartupConfigs ==
  { [sleep |-> Sleeps(MaxSleep, MaxSleep - 1), notifications |-> Subs(<<"A", "B">>, <<"B">>, <<"A">>)],
    [sleep |-> Sleeps(MaxSleep, MaxSleep - 1), notifications |-> Subs(<<"A">>, <<"Z">>, <<"A">>)],
    [sleep |-> Sleeps(MaxSleep, MaxSleep - 1), notifications |-> Subs(<<"A">>, <<"A">>, <<"Z", "A">>)] }

\* the state when main has read the configuration and built the registry:
\* no thread is spawned yet
StartupInit ==
  /\ \E cfg \in StartupConfigs : sleep = cfg.sleep /\ notifications = cfg.notifications
  /\ free_ids = [w \in WorkerSet |-> {}]
  /\ details = [w \in WorkerSet |-> NoDetails]
  /\ poll_result = [w \in WorkerSet |-> PollPending]
  /\ observed = [w \in WorkerSet |-> NoObservation]
  /\ pc = [w \in WorkerSet |-> "Unspawned"]
  /\ elapsed = [w \in WorkerSet |-> 0]
  /\ kill_rx = [w \in WorkerSet |-> 0]
  /\ idx = [t \in Threads |-> 0]
  /\ urgent = [t \in Threads |-> FALSE]
  /\ call = [t \in Threads |-> <<>>]
  /\ call_result = [t \in Threads |-> "-"]
  /\ lock = [s \in Sinks |-> "free"]
  /\ sending = [t \in Threads |-> FALSE]
  /\ poisoned = [s \in Sinks |-> FALSE]
  /\ msg_rx = <<>>
  /\ admin_kill_rx = 0
  /\ admin_pc = "Unspawned"
  /\ forwarded = {}
  /\ main_pc = "NewAdmin"
  /\ services = Workers
  /\ raised = 0
  /\ killer_pc = 0
  /\ kills_sent = [w \in WorkerSet |-> 0]
  /\ panicked = {}

\* NotificatorCollection::subcollection: self.notificators[name] panics on
\* a name the registry does not hold
subcollection_ok(names) == \A k \in 1..Len(names) : names[k] \in Sinks

\* AdminNotifications::new(notifs.subcollection(&cfg.admin_notifications))
MainNewAdmin ==
  /\ main_pc = "NewAdmin"
  /\ IF subcollection_ok(notifications["admin"])
     THEN admin_pc' = "Sleeping" /\ main_pc' = "NewServices" /\ UNCHANGED panicked
     ELSE main_pc' = "Panicked" /\ panicked' = panicked \cup {"main"} /\ UNCHANGED admin_pc
  /\ UNCHANGED <<config_vars, provider_vars, worker_vars, fanout_vars, msg_rx, admin_kill_rx,
                 forwarded, services, killer_vars>>

\* one pass of the loop of ServiceCollection::from: the subscription is
\* resolved, then Service::new spawns the worker's thread
MainNewService ==
  /\ main_pc = "NewServices"
  /\ LET i == Cardinality({w \in WorkerSet : pc[w] # "Unspawned"}) + 1
         w == Workers[i]
     IN IF subcollection_ok(notifications[w])
        THEN /\ pc' = [pc EXCEPT ![w] = "Polling"]
             /\ main_pc' = IF i = Len(Workers) THEN "SendStarted" ELSE "NewServices"
             /\ UNCHANGED panicked
        ELSE /\ main_pc' = "Panicked"
             /\ panicked' = panicked \cup {"main"}
             /\ UNCHANGED pc
  /\ UNCHANGED <<config_vars, provider_vars, elapsed, kill_rx, fanout_vars, admin_vars,
                 services, killer_vars>>

StartupNext == Next \/ MainNewAdmin \/ MainNewService

StartupSpec == StartupInit /\ [][StartupNext]_vars

(* ------------------------------- claims ------------------------------- *)
Polled(w) == poll_result[w].status # "Pending"
FreeBefore(w) == observed[w].before_free
FreeObserved(w) == FreeSetOf(observed[w].answer)
PollSucceeded(w) == Polled(w) /\ Succeeds(observed[w].answer)
SymDiff(P, N) == {x \in P \cup N : ~(x \in P /\ x \in N)}

\* C1: a successful poll returns PollResult::None if and only if the
\* symmetric difference of the stored free-id set P and the observed set N
\* is empty (so polling with N = P returns None).
C1_NoneIffNoDifference ==
  \A w \in WorkerSet :
    PollSucceeded(w) =>
      /\ poll_result[w].status = "Ok"
      /\ (poll_result[w].kind = "None") <=> (SymDiff(FreeBefore(w), FreeObserved(w)) = {})

C1_Witness ==
  \E w \in WorkerSet :
    /\ PollSucceeded(w)
    /\ FreeBefore(w) # {}
    /\ FreeObserved(w) = FreeBefore(w)
    /\ poll_result[w].kind = "None"

\* C2: a successful poll returns Urgent if and only if N \ P is non-empty,
\* and Normal if and only if N \ P is empty and P \ N is non-empty: ids
\* that only disappear never make the result Urgent.
C2_UrgentIffAdded ==
  \A w \in WorkerSet :
    PollSucceeded(w) =>
      /\ (poll_result[w].kind = "Urgent") <=> (FreeObserved(w) \ FreeBefore(w) # {})
      /\ (poll_result[w].kind = "Normal") <=>
           (FreeObserved(w) \ FreeBefore(w) = {} /\ FreeBefore(w) \ FreeObserved(w) # {})

C2_Witness ==
  \E w \in WorkerSet :
    /\ PollSucceeded(w)
    /\ FreeObserved(w) \ FreeBefore(w) # {}
    /\ FreeBefore(w) \ FreeObserved(w) # {}
    /\ poll_result[w].kind = "Urgent"

Range(q) == {q[i] : i \in 1..Len(q)}
FinalEnqueued == Terminated \in forwarded \/ \E i \in 1..Len(msg_rx) : msg_rx[i] = Terminated
AllKilled == \A w \in WorkerSet : kills_sent[w] > 0
AllTerminated == \A w \in WorkerSet : pc[w] = "Terminated"

\* C3: once main has enqueued the final "Terminated" message, the
\* AdminChannel hands that message to its subscription before its thread
\* terminates.
C3_FinalForwardedBeforeExit ==
  admin_pc = "Terminated" => Terminated \in forwarded

\* C4: once the kill signal has been sent to every worker, every worker
\* eventually reaches Terminated and join_all returns, for every configured
\* interval, 0 included.
C4_KilledWorkersTerminate ==
  AllKilled ~> (AllTerminated /\ main_pc \notin {"SendStarted", "SetHandler", "JoinAll"})

\* C5: a kill signal that reaches a worker in its sleep phase is observed
\* at the end of the tick in progress and the worker terminates there: no
\* further tick, poll or notification follows.
C5_KillInSleepTerminates ==
  [][\A w \in WorkerSet :
       /\ (pc[w] = "Sleeping" /\ elapsed[w] < sleep[w] /\ kill_rx[w] > 0) =>
            (elapsed'[w] = elapsed[w] /\ pc'[w] \in {"Sleeping", "Terminated"})
       /\ pc[w] = "Terminated" =>
            /\ pc'[w] = "Terminated"
            /\ elapsed'[w] = elapsed[w]
            /\ poll_result'[w] = poll_result[w] /\ observed'[w] = observed[w]
            /\ call'[w] = call[w] /\ call_result'[w] = call_result[w]
            /\ \A s \in Sinks : lock'[s] # w
            /\ ErrorMsg(w) \in Range(msg_rx') => ErrorMsg(w) \in Range(msg_rx)]_vars

C5_Witness ==
  \E w \in WorkerSet :
    pc[w] = "Terminated" /\ elapsed[w] >= 1 /\ sleep[w] > elapsed[w] + 1

\* C6: a kill signal sent while a worker polls or notifies does not
\* interrupt that phase: the poll and the fan-out complete (stored set,
\* admin message), and the signal is observed only at the first tick check
\* of the following sleep phase.
C6_KillWaitsForSleepPhase ==
  [][\A w \in WorkerSet :
       /\ (pc[w] \in {"Polling", "Notifying"} /\ kill_rx[w] > 0) =>
            (pc'[w] \in {"Polling", "Notifying", "Sleeping"} /\ kill_rx'[w] >= kill_rx[w])
       /\ (pc[w] # "Terminated" /\ pc'[w] = "Terminated") =>
            (pc[w] = "Sleeping" /\ kill_rx[w] > 0 /\ elapsed[w] < sleep[w])
       /\ (pc[w] = "Sleeping" /\ elapsed[w] = 0 /\ sleep[w] > 0 /\ kill_rx[w] > 0) =>
            (elapsed'[w] = 0 /\ pc'[w] \in {"Sleeping", "Terminated"})
       /\ (pc[w] = "Polling" /\ pc'[w] # "Polling" /\ kill_rx[w] > 0) =>
            /\ PollSucceeded(w)' =>
                 free_ids'[w] = IF poll_result'[w].kind = "None" THEN free_ids[w]
                                ELSE FreeObserved(w)'
            /\ ~PollSucceeded(w)' => msg_rx' = Append(msg_rx, ErrorMsg(w))
       /\ (pc[w] = "Notifying" /\ pc'[w] = "Sleeping" /\ kill_rx[w] > 0) =>
            /\ call_result'[w] \in {"Ok", "Err"}
            /\ call_result'[w] = "Ok" => Len(call'[w]) = Len(notifications[w])
            /\ call_result'[w] = "Err" => msg_rx' = Append(msg_rx, ErrorMsg(w))]_vars

C6_Witness ==
  \E w \in WorkerSet :
    pc[w] = "Notifying" /\ kill_rx[w] > 0 /\ Len(call[w]) >= 1 /\ Holding(w)

\* C7: a failed poll leaves the stored free-id set and details as they
\* were, enqueues exactly one admin message, invokes no sink and does not
\* end the worker, which polls again after its interval against the
\* unchanged stored set.
C7_FailedPollLeavesSnapshot ==
  [][\A w \in WorkerSet :
       /\ (pc[w] = "Polling" /\ pc'[w] # "Polling" /\ ~Succeeds(observed'[w].answer)) =>
            /\ poll_result'[w] = PollErr
            /\ free_ids'[w] = free_ids[w] /\ details'[w] = details[w]
            /\ msg_rx' = Append(msg_rx, ErrorMsg(w))
            /\ call' = call /\ call_result' = call_result /\ lock' = lock
            /\ pc'[w] = "Sleeping" /\ elapsed'[w] = 0
       /\ (pc[w] = "Sleeping" /\ pc'[w] # "Terminated") =>
            (free_ids'[w] = free_ids[w] /\ details'[w] = details[w])
       /\ (pc[w] = "Sleeping" /\ pc'[w] = "Polling") => elapsed[w] = sleep[w]
       /\ (pc[w] = "Polling" /\ pc'[w] # "Polling" /\ Succeeds(observed'[w].answer)) =>
            ((poll_result'[w].kind = "None") <=>
               (SymDiff(free_ids[w], FreeObserved(w)') = {}))]_vars

C7_Witness ==
  \E w \in WorkerSet :
    /\ poll_result[w] = PollErr
    /\ pc[w] = "Sleeping"
    /\ free_ids[w] # {}
    /\ free_ids[w] = FreeBefore(w)
    /\ ErrorMsg(w) \in Range(msg_rx)

\* C8: when a changed poll's fan-out returns an error the stored free-id
\* set is the newly observed one, exactly one admin message is enqueued,
\* the worker keeps running, and the notification is not retried: a
\* following poll that observes the same set returns None and dispatches
\* nothing.
C8_FailedDeliveryNotRetried ==
  [][\A w \in WorkerSet :
       /\ (pc[w] = "Notifying" /\ call_result'[w] = "Err") =>
            /\ free_ids'[w] = FreeObserved(w)
            /\ free_ids'[w] = free_ids[w]
            /\ msg_rx' = Append(msg_rx, ErrorMsg(w))
            /\ pc'[w] = "Sleeping"
       /\ (pc[w] = "Sleeping" /\ pc'[w] # "Terminated") => free_ids'[w] = free_ids[w]
       /\ (/\ pc[w] = "Polling" /\ pc'[w] # "Polling"
           /\ Succeeds(observed'[w].answer)
           /\ FreeObserved(w)' = free_ids[w]) =>
            /\ poll_result'[w].kind = "None"
            /\ pc'[w] = "Sleeping"
            /\ call' = call /\ call_result' = call_result /\ lock' = lock
            /\ msg_rx' = msg_rx]_vars

C8_Witness ==
  \E w \in WorkerSet :
    /\ pc[w] = "Sleeping"
    /\ call_result[w] = "Err"
    /\ poll_result[w].kind \in {"Urgent", "Normal"}
    /\ free_ids[w] = FreeObserved(w)
    /\ ErrorMsg(w) \in Range(msg_rx)

\* C9: in one fan-out call the sinks are invoked in the subscription's
\* order; the first failing sink ends the call with that failure, the sinks
\* before it received the message and no sink after it is invoked.
C9_FanoutShortCircuits ==
  \A t \in Threads :
    LET c == call[t]
        subs == notifications[t]
    IN /\ Len(c) <= Len(subs)
       /\ \A k \in 1..Len(c) : c[k].pos = k /\ c[k].sink = subs[k] /\ c[k].urgent = urgent[t]
       /\ \A k \in 1..(Len(c) - 1) : c[k].ok
       /\ call_result[t] = "Running" => (idx[t] = Len(c) + 1 /\ \A k \in 1..Len(c) : c[k].ok)
       /\ call_result[t] = "Err" => (Len(c) >= 1 /\ ~c[Len(c)].ok)
       /\ call_result[t] = "Ok" => (Len(c) = Len(subs) /\ \A k \in 1..Len(c) : c[k].ok)
       /\ call_result[t] = "-" => c = <<>>

C9_Witness ==
  \E t \in Threads :
    call_result[t] = "Err" /\ Len(call[t]) = 2 /\ Len(notifications[t]) = 3

\* C10: the final "Terminated" message is enqueued only after every worker
\* has terminated and exactly once, the AdminChannel kill signal is sent
\* only after it, the admin queue's Receiver is alive at every enqueue, and
\* no worker message is enqueued after the final message.
C10_ShutdownOrder ==
  /\ FinalEnqueued => AllTerminated
  /\ Cardinality({i \in 1..Len(msg_rx) : msg_rx[i] = Terminated})
       + (IF Terminated \in forwarded THEN 1 ELSE 0) <= 1
  /\ main_pc \in {"KillAdmin", "JoinAdmin", "Done"} => FinalEnqueued
  /\ (admin_kill_rx > 0 \/ admin_pc = "Terminated") => FinalEnqueued
  /\ panicked \cap (WorkerSet \cup {"main"}) = {}
  /\ \A i \in 1..Len(msg_rx) : msg_rx[i] = Terminated => i = Len(msg_rx)
  /\ Terminated \in forwarded => msg_rx = <<>>

C10_Witness ==
  Terminated \in Range(msg_rx) /\ admin_kill_rx > 0 /\ Len(msg_rx) > 1

\* C11: a worker takes a kill signal from its channel at most once (when it
\* terminates), and a repeated shutdown request is harmless: the signals it
\* sends queue or are rejected, and nothing fails.
C11_RepeatedKillHarmless ==
  [][/\ \A w \in WorkerSet :
          kill_rx'[w] < kill_rx[w] => (pc[w] # "Terminated" /\ pc'[w] = "Terminated")
     /\ "ctrlc" \notin panicked']_vars

\* C17: kill_all signals every worker independently: when it has returned,
\* every worker still running has been sent one signal per interrupt,
\* whatever became of the sends to the other workers.
C17_KillAllReachesEveryWorker ==
  killer_pc = 0 => \A w \in WorkerSet : ~Ended(w) => kills_sent[w] = raised

\* C12: no two threads execute a send on the same sink at the same time
\* (sends by two threads on two different sinks may overlap).
C12_OneSenderPerSink ==
  \A t1, t2 \in Threads :
    (t1 # t2 /\ sending[t1] /\ sending[t2]) => CurrentSink(t1) # CurrentSink(t2)

C12_Witness ==
  \E t1, t2 \in Threads :
    /\ t1 # t2 /\ sending[t1] /\ sending[t2]
    /\ CurrentSink(t1) # CurrentSink(t2)
    /\ \E t3 \in Threads \ {t1} : CurrentSink(t1) \in Range(notifications[t3])

\* C13: when a thread's fan-out meets a poisoned sink lock the call returns
\* an error without invoking that sink or a later one, the thread does not
\* panic or terminate, and a worker handles it as a delivery failure: one
\* admin message, then its sleep phase.
C13_PoisonedLockIsDeliveryError ==
  [][\A t \in Threads :
       (/\ InFanout(t) /\ ~Holding(t) /\ poisoned[CurrentSink(t)]
        /\ call_result'[t] # call_result[t]) =>
         /\ call_result'[t] = "Err"
         /\ call'[t] = call[t] /\ lock' = lock /\ sending' = sending
         /\ t \notin panicked'
         /\ IF t \in WorkerSet
            THEN pc'[t] = "Sleeping" /\ msg_rx' = Append(msg_rx, ErrorMsg(t))
            ELSE admin_pc' = "CheckKill"]_vars

\* C14: when startup fails because a subscription names a sink absent from
\* the registry, the process is aborted before any worker has been spawned
\* (so no worker has polled or notified).
C14_StartupFailsBeforeSpawn ==
  (main_pc = "Panicked" /\ \E t \in Threads : ~subcollection_ok(notifications[t])) =>
    \A w \in WorkerSet : pc[w] = "Unspawned"

\* C15: the AdminChannel takes at most one message from its queue per
\* one-second pass, always the oldest one (messages leave the queue in the
\* order they were enqueued), and hands each message to its subscription
\* at most once.
C15_AdminForwardsInOrder ==
  [][/\ msg_rx' # msg_rx =>
          \/ /\ Len(msg_rx') = Len(msg_rx) + 1
             /\ SubSeq(msg_rx', 1, Len(msg_rx)) = msg_rx
             /\ forwarded' = forwarded
          \/ /\ msg_rx # <<>>
             /\ msg_rx' = Tail(msg_rx)
             /\ admin_pc = "Sleeping" /\ admin_pc' \in {"Notifying", "CheckKill"}
             /\ call_result'["admin"] \in {"Running", "Ok"} /\ call'["admin"] = <<>>
             /\ Head(msg_rx)[1] = "App" =>
                  (Head(msg_rx) \notin forwarded /\ forwarded' = forwarded \cup {Head(msg_rx)})
             /\ Head(msg_rx)[1] # "App" => forwarded' = forwarded
     /\ forwarded' # forwarded => msg_rx' # msg_rx
     /\ (admin_pc # "Sleeping" /\ admin_pc' = "Sleeping") => admin_pc = "CheckKill"]_vars

C15_Witness ==
  /\ admin_pc = "Notifying"
  /\ Started \in forwarded
  /\ Len(msg_rx) >= 2
  /\ msg_rx[Len(msg_rx)] = Terminated

\* C16: a delivery failure inside the AdminChannel is only logged: no
\* message is enqueued or put back on the admin queue, the thread does not
\* end, and it goes on to the kill check of the same pass.
C16_AdminFailureOnlyLogged ==
  [][/\ (admin_pc = "Notifying" /\ call_result'["admin"] = "Err") =>
          /\ msg_rx' = msg_rx /\ forwarded' = forwarded
          /\ admin_pc' = "CheckKill"
          /\ "admin" \notin panicked'
     /\ (admin_pc = "CheckKill" /\ admin_pc' # "CheckKill") =>
          /\ admin_pc' = IF admin_kill_rx > 0 THEN "Terminated" ELSE "Sleeping"
          /\ msg_rx' = msg_rx]_vars

C16_Witness ==
  admin_pc = "CheckKill" /\ call_result["admin"] = "Err" /\ admin_kill_rx > 0

\* C18: after every successful poll, one classified None included, the
\* provider's stored free ids and details are those the poll observed.
C18_SnapshotReplacedOnSuccess ==
  \A w \in WorkerSet :
    PollSucceeded(w) =>
      /\ free_ids[w] = FreeObserved(w)
      /\ details[w] = observed[w].answer.overview

\* C19: a thread holds at most one sink lock, only while it executes that
\* sink's send inside a fan-out (never while polling or sleeping, never
\* across to the next sink); so a thread waiting for a sink's lock waits for
\* a thread that is inside a send and waits for nothing: no deadlock, also
\* with shared sinks and a sink listed twice.
C19_OneLockPerSend ==
  /\ \A t \in Threads : Cardinality({s \in Sinks : lock[s] = t}) <= 1
  /\ \A s \in Sinks :
       lock[s] # "free" =>
         LET t == lock[s]
         IN /\ InFanout(t) /\ sending[t] /\ CurrentSink(t) = s
            /\ IF t \in WorkerSet THEN pc[t] = "Notifying" ELSE admin_pc = "Notifying"
  /\ \A t \in Threads :
       (InFanout(t) /\ ~sending[t]) =>
         \/ lock[CurrentSink(t)] = "free"
         \/ \E h \in Threads \ {t} : lock[CurrentSink(t)] = h /\ sending[h]

C19_Witness ==
  \E t \in Threads : \E h \in Threads \ {t} :
    /\ InFanout(t) /\ ~sending[t]
    /\ idx[t] = 2 /\ notifications[t][1] = notifications[t][2]
    /\ lock[CurrentSink(t)] = h

\* C20: a worker's phases follow poll, notify (when there is something to
\* send), sleep, one at a time; its next poll starts only when exactly
\* `sleep` ticks have elapsed, each of them ended by a kill check that found
\* no signal.
C20_PhasesInSequence ==
  [][\A w \in WorkerSet :
       /\ pc[w] = "Polling" => pc'[w] \in {"Polling", "Notifying", "Sleeping"}
       /\ pc[w] = "Notifying" => pc'[w] \in {"Notifying", "Sleeping"}
       /\ pc[w] = "Sleeping" => pc'[w] \in {"Sleeping", "Polling", "Terminated"}
       /\ pc[w] \in {"Polling", "Sleeping"} => (~InFanout(w) /\ ~sending[w])
       /\ (poll_result'[w] # poll_result[w] /\ poll_result'[w] # PollPending) => pc[w] = "Polling"
       /\ (pc[w] = "Polling" /\ pc'[w] = "Notifying") =>
            (poll_result'[w].kind \in {"Urgent", "Normal"} /\ InFanout(w)')
       /\ (pc[w] # "Sleeping" /\ pc'[w] = "Sleeping") =>
            (elapsed'[w] = 0 /\ call_result'[w] # "Running")
       /\ elapsed'[w] # elapsed[w] =>
            \/ pc[w] # "Sleeping" /\ pc'[w] = "Sleeping" /\ elapsed'[w] = 0
            \/ /\ pc[w] = "Sleeping" /\ pc'[w] = "Sleeping"
               /\ elapsed'[w] = elapsed[w] + 1
               /\ elapsed[w] < sleep[w]
               /\ kill_rx[w] = 0
       /\ (pc[w] = "Sleeping" /\ pc'[w] = "Polling") => elapsed[w] = sleep[w]]_vars

C20_Witness ==
  \E w \in WorkerSet :
    pc[w] = "Polling" /\ sleep[w] >= 2 /\ elapsed[w] = sleep[w] /\ free_ids[w] # {}

\* C21: after a successful poll the worker calls its subscription exactly
\* when the result is not None: send_urgent for Urgent, send_normal for
\* Normal, every sink of the call in that mode; a None result invokes no
\* sink and enqueues no admin message.
C21_DispatchMatchesResult ==
  [][\A w \in WorkerSet :
       /\ (pc[w] = "Polling" /\ pc'[w] # "Polling" /\ Succeeds(observed'[w].answer)) =>
            /\ msg_rx' = msg_rx
            /\ IF poll_result'[w].kind = "None"
               THEN /\ call_result'[w] = "-" /\ call'[w] = <<>>
                    /\ lock' = lock /\ sending' = sending
                    /\ pc'[w] = "Sleeping"
               ELSE /\ call_result'[w] \in {"Running", "Ok"}
                    /\ call_result'[w] = "Ok" <=> notifications[w] = <<>>
                    /\ urgent'[w] = (poll_result'[w].kind = "Urgent")
       /\ Len(call'[w]) > Len(call[w]) =>
            /\ pc[w] = "Notifying"
            /\ poll_result[w].kind \in {"Urgent", "Normal"}
            /\ call'[w][Len(call'[w])].urgent = (poll_result[w].kind = "Urgent")
       /\ (pc[w] = "Notifying" /\ pc'[w] = "Notifying") =>
            (urgent'[w] = urgent[w] /\ poll_result'[w] = poll_result[w])]_vars

C21_Witness ==
  \E w \in WorkerSet :
    /\ pc[w] = "Notifying"
    /\ poll_result[w].kind = "Normal"
    /\ Len(call[w]) >= 2
    /\ \A k \in 1..Len(call[w]) : ~call[w][k].urgent

SectionIds(section) == {section[k][2] : k \in 1..Len(section)}
Lists(section, ids) == SectionIds(section) = ids /\ Len(section) = Cardinality(ids)

\* C22: in the report of a changed poll with stored set P and observed set
\* N, the added section lists exactly the ids of N \ P, the all-free
\* section exactly those of N and the removed section exactly those of
\* P \ N, one entry per id.
C22_ReportSections ==
  \A w \in WorkerSet :
    (PollSucceeded(w) /\ poll_result[w].kind # "None") =>
      /\ Lists(poll_result[w].text.added, FreeObserved(w) \ FreeBefore(w))
      /\ Lists(poll_result[w].text.all, FreeObserved(w))
      /\ Lists(poll_result[w].text.removed, FreeBefore(w) \ FreeObserved(w))

C22_Witness ==
  \E w \in WorkerSet :
    /\ PollSucceeded(w)
    /\ FreeBefore(w) \cap FreeObserved(w) # {}
    /\ poll_result[w].text.removed # <<>>
    /\ DOMAIN observed[w].answer.overview # DOMAIN observed[w].before_details

\* C23: every id of a provider's stored free-id set is a key of its stored
\* details, after any sequence of successful and failed polls.
C23_FreeIdsHaveDetails ==
  \A w \in WorkerSet : free_ids[w] \subseteq DOMAIN details[w]

C23_Witness ==
  \E w \in WorkerSet :
    /\ poll_result[w] = PollErr
    /\ observed[w].answer.ok
    /\ free_ids[w] # {}
    /\ ~(free_ids[w] \subseteq DOMAIN observed[w].answer.overview)

\* C24: a provider starts with an empty stored free-id set and failed polls
\* leave it empty, so its first successful poll returns Urgent when an item
\* is free and None otherwise, never Normal.
C24_FirstPollUrgentOrNone ==
  [][\A w \in WorkerSet :
       (free_ids[w] = {} /\ observed'[w] # observed[w]) =>
         IF Succeeds(observed'[w].answer)
         THEN poll_result'[w].kind = IF FreeObserved(w)' # {} THEN "Urgent" ELSE "None"
         ELSE free_ids'[w] = {} /\ poll_result'[w] = PollErr]_vars

C24_Witness ==
  \E w \in WorkerSet :
    /\ PollSucceeded(w)
    /\ FreeBefore(w) = {} /\ observed[w].before_details = NoDetails
    /\ Cardinality(FreeObserved(w)) >= 2
    /\ poll_result[w].kind = "Urgent"

InLoop(w) == pc[w] \in {"Polling", "Notifying", "Sleeping"}

\* C25: a worker leaves its loop only after a kill signal was sent to it,
\* whatever polls and deliveries succeeded or failed before, and the
\* AdminChannel thread terminates only after its own kill signal was sent
\* (a thread whose own sink send panics is left aside).
C25_LeavesLoopOnlyOnKill ==
  [][/\ \A w \in WorkerSet :
          (InLoop(w) /\ ~InLoop(w)') => (kills_sent[w] > 0 \/ sending[w])
     /\ (admin_pc # "Terminated" /\ admin_pc' = "Terminated") =>
          (admin_kill_rx > 0 \/ sending["admin"])]_vars

====
